---- MODULE Spec2Model ----
(***************************************************************************)
(* Telemetry aggregation service: the loader and the aggregator of         *)
(* api/index.py (handler telemetry) and api/telemetry.py (handler          *)
(* telemetry_metrics).                                                     *)
(*                                                                         *)
(* Strings are sequences of one-character strings, so that strip() and     *)
(* lower() are computed.  JSON / CSV values are tagged records.  Floats    *)
(* are exact rationals <<num, den>>; a rounded float is an integer number  *)
(* of millionths.                                                          *)
(***************************************************************************)
EXTENDS Integers, Sequences, FiniteSets, TLC

VARIABLES files, pc, app, req, path, records, status, out, values, stat

vars == <<files, pc, app, req, path, records, status, out, values, stat>>

(***************************************************************************)
(* Bounds of the model.                                                    *)
(***************************************************************************)
MaxRows == 2
MaxRegions == 2
MaxLoadRows == 2
MaxLen == 4
MaxLatency == 3
NumCalls == 2

(***************************************************************************)
(* Python strings: str.strip(), str.lower(), float(str).                   *)
(***************************************************************************)
IsSpace(c) == c = " "

RECURSIVE LStrip(_)
LStrip(s) == IF s # <<>> /\ IsSpace(Head(s)) THEN LStrip(Tail(s)) ELSE s

RECURSIVE RStrip(_)
RStrip(s) ==
    IF s # <<>> /\ IsSpace(s[Len(s)]) THEN RStrip(SubSeq(s, 1, Len(s) - 1)) ELSE s

Strip(s) == RStrip(LStrip(s))

LowerChar(c) == IF c = "A" THEN "a" ELSE IF c = "B" THEN "b" ELSE c

Lower(s) == [i \in 1..Len(s) |-> LowerChar(s[i])]

Digits == <<"0", "1", "2", "3", "4", "5", "6", "7", "8", "9">>

IsDigit(c) == \E d \in 1..10 : Digits[d] = c

DigitVal(c) == (CHOOSE d \in 1..10 : Digits[d] = c) - 1

RECURSIVE DecimalVal(_)
DecimalVal(s) ==
    IF s = <<>> THEN 0
    ELSE 10 * DecimalVal(SubSeq(s, 1, Len(s) - 1)) + DigitVal(s[Len(s)])

(***************************************************************************)
(* Values of a raw record: a JSON number, a string, null, a non-empty JSON *)
(* array, or an integer too large for a float.  In a CSV row every value   *)
(* is a string or None (a cell the row does not have).                     *)
(***************************************************************************)
Num(n) == [t |-> "num", n |-> n, s |-> <<>>]
Str(s) == [t |-> "str", n |-> 0, s |-> s]
None == [t |-> "none", n |-> 0, s |-> <<>>]
Arr == [t |-> "list", n |-> 0, s |-> <<>>]
Huge == [t |-> "huge", n |-> 0, s |-> <<>>]

\* Python truth value: None, 0 and "" are false.
Truthy(v) ==
    CASE v.t = "none" -> FALSE
      [] v.t = "num" -> v.n # 0
      [] v.t = "str" -> v.s # <<>>
      [] OTHER -> TRUE

\* x or y
Or(x, y) == IF Truthy(x) THEN x ELSE y

\* float(v): the exception it raises ("none" when it returns) and its value.
FloatOf(v) ==
    CASE v.t = "num" -> [exc |-> "none", val |-> v.n]
      [] v.t = "str" ->
            IF Strip(v.s) # <<>> /\ \A i \in 1..Len(Strip(v.s)) : IsDigit(Strip(v.s)[i])
            THEN [exc |-> "none", val |-> DecimalVal(Strip(v.s))]
            ELSE [exc |-> "ValueError", val |-> 0]
      [] v.t = "huge" -> [exc |-> "OverflowError", val |-> 0]
      [] OTHER -> [exc |-> "TypeError", val |-> 0]

\* str(v)
StrOf(v) ==
    CASE v.t = "str" -> v.s
      [] v.t = "num" /\ v.n < 10 -> <<Digits[v.n + 1]>>
      [] v.t = "list" -> <<"[", "]">>
      [] OTHER -> <<"?">>

(***************************************************************************)
(* Raw rows.  A row is an object (a mapping from keys to values) or, in a  *)
(* JSON list, an element that is no object.                                *)
(***************************************************************************)
Obj(f) == [obj |-> TRUE, f |-> f]
Scalar == [obj |-> FALSE, f |-> <<>>]

\* r.get(k)
Get(r, k) == IF k \in DOMAIN r.f THEN r.f[k] ELSE None

(***************************************************************************)
(* Alias resolution: a chain of  r.get(k1) or r.get(k2) or ...             *)
(***************************************************************************)
\* index.py, JSON loop and CSV loop (the two chains are the same text).
IndexAliases(r) ==
    [region |-> Or(Get(r, "region"), Get(r, "Region")),
     latency |-> Or(Get(r, "latency_ms"),
                    Or(Get(r, "latency"), Or(Get(r, "latencyMs"), Get(r, "Latency")))),
     uptime |-> Or(Get(r, "uptime"),
                   Or(Get(r, "uptime_pct"), Or(Get(r, "uptimePercent"), Get(r, "Uptime"))))]

\* telemetry.py, CSV loop.
MetricsCsvAliases(row) ==
    [region |-> Or(Get(row, "region"), Get(row, "Region")),
     latency |-> Or(Get(row, "latency_ms"),
                    Or(Get(row, "latency"), Or(Get(row, "latencyMs"), Get(row, "Latency")))),
     uptime |-> Or(Get(row, "uptime"),
                   Or(Get(row, "uptime_pct"),
                      Or(Get(row, "uptimePercent"), Get(row, "Uptime"))))]

\* telemetry.py, JSON loop: three latency aliases, three uptime aliases.
MetricsJsonAliases(row) ==
    [region |-> Or(Get(row, "region"), Get(row, "Region")),
     latency |-> Or(Get(row, "latency_ms"), Or(Get(row, "latency"), Get(row, "latencyMs"))),
     uptime |-> Or(Get(row, "uptime"), Or(Get(row, "uptime_pct"), Get(row, "uptimePercent")))]

(***************************************************************************)
(* One iteration of a loader loop.  Its outcome is "keep" (a normalized    *)
(* record is appended), "skip" (continue) or "raise" (an exception leaves  *)
(* the loop and the loader).                                               *)
(***************************************************************************)
Keep(rec) == [o |-> "keep", rec |-> rec]
NoRecord == [region |-> <<>>, latency_ms |-> 0, uptime |-> 0]
Skip == [o |-> "skip", rec |-> NoRecord]
Raise == [o |-> "raise", rec |-> NoRecord]

\* if region is None or latency is None or uptime is None: continue
\* try: records.append({...}) except caught: continue
\* The dict display evaluates float(latency) before float(uptime).
BuildRecord(a, caught) ==
    IF a.region = None \/ a.latency = None \/ a.uptime = None THEN Skip
    ELSE LET fl == FloatOf(a.latency)
             fu == FloatOf(a.uptime)
             exc == IF fl.exc # "none" THEN fl.exc ELSE fu.exc
         IN IF exc = "none"
            THEN Keep([region |-> Lower(Strip(StrOf(a.region))),
                       latency_ms |-> fl.val,
                       uptime |-> fu.val])
            ELSE IF exc \in caught THEN Skip ELSE Raise

\* index.py, JSON loop body.
IndexJsonRow(r) ==
    IF ~r.obj THEN Skip ELSE BuildRecord(IndexAliases(r), {"TypeError", "ValueError"})

\* index.py, CSV loop body.
IndexCsvRow(r) == BuildRecord(IndexAliases(r), {"TypeError", "ValueError"})

\* telemetry.py, CSV loop body.
MetricsCsvRow(row) == BuildRecord(MetricsCsvAliases(row), {"ValueError"})

\* telemetry.py, JSON loop body: row.get on an element that is no dict raises
\* AttributeError.
MetricsJsonRow(row) ==
    IF ~row.obj THEN Raise
    ELSE BuildRecord(MetricsJsonAliases(row), {"ValueError", "TypeError"})

\* The records a loop returns from the outcomes of its iterations.
Kept(outs) ==
    LET k == SelectSeq(outs, LAMBDA x : x.o = "keep")
    IN [i \in 1..Len(k) |-> k[i].rec]

Raised(outs) == \E i \in 1..Len(outs) : outs[i].o = "raise"

(***************************************************************************)
(* The data directory.  A file is absent, a JSON document (a list, an      *)
(* object with a records list, an object without one) or a CSV document.   *)
(***************************************************************************)
PrimaryJson == "q-vercel-latency.json"
AltJson == "telemetry.json"
CsvFile == "telemetry.csv"

Absent == [kind |-> "absent", rows |-> <<>>]
JsonList(rows) == [kind |-> "list", rows |-> rows]
JsonRecords(rows) == [kind |-> "records", rows |-> rows]
JsonObject == [kind |-> "object", rows |-> <<>>]
Csv(rows) == [kind |-> "csv", rows |-> rows]

\* os.path.exists(p)
Exists(fs, p) == fs[p].kind # "absent"

\* path.endswith(".json")
EndsWithJson(p) == p \in {PrimaryJson, AltJson}

\* rows = payload.get("records", payload) if isinstance(payload, dict) else payload
\* isinstance(rows, list)
RowsIsList(doc) == doc.kind \in {"list", "records"}

Loaded(p, recs) == [err |-> "none", path |-> p, recs |-> recs]
LoadFailed(e, p) == [err |-> e, path |-> p, recs |-> <<>>]

\* index.py: candidates, in priority order.
candidates == <<PrimaryJson, AltJson, CsvFile>>

\* index.py load_records()
load_records(fs) ==
    IF \A i \in 1..Len(candidates) : ~Exists(fs, candidates[i])
    THEN LoadFailed("NotFound", "none")
    ELSE LET first == CHOOSE i \in 1..Len(candidates) :
                          /\ Exists(fs, candidates[i])
                          /\ \A j \in 1..(i - 1) : ~Exists(fs, candidates[j])
             p == candidates[first]
             outs == IF EndsWithJson(p)
                     THEN [i \in 1..Len(fs[p].rows) |-> IndexJsonRow(fs[p].rows[i])]
                     ELSE [i \in 1..Len(fs[p].rows) |-> IndexCsvRow(fs[p].rows[i])]
         IN IF EndsWithJson(p) /\ ~RowsIsList(fs[p]) THEN LoadFailed("Unsupported", p)
            ELSE IF Raised(outs) THEN LoadFailed("Unhandled", p)
            ELSE Loaded(p, Kept(outs))

\* telemetry.py _load_records()
_load_records(fs) ==
    IF Exists(fs, CsvFile)
    THEN LET outs == [i \in 1..Len(fs[CsvFile].rows) |-> MetricsCsvRow(fs[CsvFile].rows[i])]
         IN IF Raised(outs) THEN LoadFailed("Unhandled", CsvFile)
            ELSE Loaded(CsvFile, Kept(outs))
    ELSE IF Exists(fs, AltJson)
    THEN LET outs == [i \in 1..Len(fs[AltJson].rows) |-> MetricsJsonRow(fs[AltJson].rows[i])]
         IN IF ~RowsIsList(fs[AltJson]) THEN LoadFailed("Unsupported", AltJson)
            ELSE IF Raised(outs) THEN LoadFailed("Unhandled", AltJson)
            ELSE Loaded(AltJson, Kept(outs))
    ELSE LoadFailed("NotFound", "none")

(***************************************************************************)
(* Statistics.  A float is the exact rational <<num, den>>, den > 0.       *)
(***************************************************************************)
RECURSIVE Sum(_)
Sum(s) == IF s = <<>> THEN 0 ELSE Head(s) + Sum(Tail(s))

RECURSIVE Insert(_, _)
Insert(x, s) ==
    IF s = <<>> THEN <<x>>
    ELSE IF x <= Head(s) THEN <<x>> \o s
    ELSE <<Head(s)>> \o Insert(x, Tail(s))

\* sorted(vals)
RECURSIVE sorted(_)
sorted(s) == IF s = <<>> THEN <<>> ELSE Insert(Head(s), sorted(Tail(s)))

Pow10(d) == IF d = 0 THEN 1 ELSE IF d = 1 THEN 10 ELSE IF d = 2 THEN 100
            ELSE IF d = 3 THEN 1000 ELSE IF d = 4 THEN 10000 ELSE IF d = 5 THEN 100000
            ELSE 1000000

\* round(q, d) of a float q >= 0, in millionths: the nearest multiple of
\* 10^-d, a tie going to the even one.
round(q, d) ==
    LET n == q[1] * Pow10(d)
        k == n \div q[2]
        r == n % q[2]
        up == 2 * r > q[2] \/ (2 * r = q[2] /\ k % 2 = 1)
    IN (IF up THEN k + 1 ELSE k) * Pow10(6 - d)

\* index.py mean(vals)
mean(vals) == IF vals # <<>> THEN <<Sum(vals), Len(vals)>> ELSE <<0, 1>>

\* telemetry.py _mean(values)
_mean(vals) == IF vals # <<>> THEN <<Sum(vals), Len(vals)>> ELSE <<0, 1>>

\* index.py p95(vals): pos = (n - 1) * 0.95 is posNum / 100; s is 0-based in
\* the source and 1-based here.
p95ResultWrongFrac(s, n, lo, hi, posNum) ==
    <<100 * s[lo + 1] + (s[hi + 1] - s[lo + 1]) * posNum, 100>>

p95Result(s, n, lo, hi, posNum) ==
    <<100 * s[lo + 1] + (s[hi + 1] - s[lo + 1]) * (posNum - 100 * lo), 100>>

p95(vals) ==
    IF vals = <<>> THEN <<0, 1>>
    ELSE LET s == sorted(vals)
             n == Len(s)
             posNum == (n - 1) * 95
             lo == posNum \div 100
             ceil == IF posNum % 100 = 0 THEN lo ELSE lo + 1
             hi == IF ceil >= n THEN n - 1 ELSE ceil
         IN IF n = 1 THEN <<s[1], 1>> ELSE p95Result(s, n, lo, hi, posNum)

Max(a, b) == IF a >= b THEN a ELSE b
Min(a, b) == IF a <= b THEN a ELSE b

\* telemetry.py _percentile_95(values): nearest rank.
_percentile_95(vals) ==
    IF vals = <<>> THEN <<0, 1>>
    ELSE LET s == sorted(vals)
             n == Len(s)
             rank == (95 * n + 99) \div 100
             idx == Max(0, Min(n - 1, rank - 1))
         IN <<s[idx + 1], 1>>

(***************************************************************************)
(* The two handlers' aggregation.                                          *)
(***************************************************************************)
Range(s) == {s[i] : i \in 1..Len(s)}

Zero ==
    [avg_latency |-> 0, p95_latency |-> 0, avg_uptime |-> 0, breaches |-> 0]

latency_ms(rows) == [i \in 1..Len(rows) |-> rows[i].latency_ms]
uptime(rows) == [i \in 1..Len(rows) |-> rows[i].uptime]

\* sum(1 for r in rows if r["latency_ms"] > req.threshold_ms)
BreachesAtLeast(rows, threshold_ms) ==
    Len(SelectSeq(rows, LAMBDA r : r.latency_ms >= threshold_ms))

Breaches(rows, threshold_ms) ==
    Len(SelectSeq(rows, LAMBDA r : r.latency_ms > threshold_ms))

\* index.py: [str(x).strip().lower() for x in req.regions if str(x).strip()]
requestedNoNormalize(regions) ==
    SelectSeq(regions, LAMBDA x : Strip(x) # <<>>)

requested(regions) ==
    LET k == SelectSeq(regions, LAMBDA x : Strip(x) # <<>>)
    IN [i \in 1..Len(k) |-> Lower(Strip(k[i]))]

\* index.py: the body of  for region in requested_set
RegionSummary(recs, region, threshold_ms) ==
    LET rows == SelectSeq(recs, LAMBDA r : r.region = region)
    IN IF rows = <<>> THEN Zero
       ELSE [avg_latency |-> round(mean(latency_ms(rows)), 2),
             p95_latency |-> round(p95(latency_ms(rows)), 2),
             avg_uptime |-> round(mean(uptime(rows)), 6),
             breaches |-> Breaches(rows, threshold_ms)]

\* telemetry.py: [r.strip().lower() for r in req.regions if str(r).strip()]
requested_regions(regions) ==
    LET k == SelectSeq(regions, LAMBDA x : Strip(x) # <<>>)
    IN [i \in 1..Len(k) |-> Lower(Strip(k[i]))]

\* telemetry.py: grouped, the records of the requested regions by region.
grouped(recs, requested_set) ==
    [g \in {recs[i].region : i \in 1..Len(recs)} \cap requested_set |->
        SelectSeq(recs, LAMBDA r : r.region = g)]

\* telemetry.py: the summaries of grouped, then the requested regions missing
\* from it with zero metrics.
response(recs, requested_set, threshold_ms) ==
    LET g == grouped(recs, requested_set)
    IN [region \in DOMAIN g \cup requested_set |->
          IF region \in DOMAIN g
          THEN [avg_latency |-> round(_mean(latency_ms(g[region])), 3),
                p95_latency |-> round(_percentile_95(latency_ms(g[region])), 3),
                avg_uptime |-> round(_mean(uptime(g[region])), 6),
                breaches |-> Breaches(g[region], threshold_ms)]
          ELSE Zero]

(***************************************************************************)
(* Calls of POST /api/telemetry.  Call p is one handling of one request by  *)
(* one of the two applications: its position, its request, and the         *)
(* handler's locals.  Calls interleave at the return of the loader.        *)
(***************************************************************************)
Calls == 1..NumCalls

NoOut == [region \in {} |-> Zero]
NoRequest == [regions |-> <<>>, threshold_ms |-> 0]
Pending == [code |-> 0, detail |-> "none"]
Ok == [code |-> 200, detail |-> "none"]
HTTPException(status_code, detail) == [code |-> status_code, detail |-> detail]

\* The handler's first statement: records = load_records().  An exception
\* of the loader ends the request with status 500.
RECURSIVE RecordsOfCalls(_)
RecordsOfCalls(k) == IF k = 0 THEN <<>> ELSE RecordsOfCalls(k - 1) \o records[k]

BeginSharedRecords(p, name, r, l) ==
    /\ pc[p] = "idle"
    /\ app' = [app EXCEPT ![p] = name]
    /\ req' = [req EXCEPT ![p] = r]
    /\ path' = [path EXCEPT ![p] = l.path]
    /\ out' = [out EXCEPT ![p] = NoOut]
    /\ IF l.err = "none"
       THEN /\ records' = [records EXCEPT ![p] = RecordsOfCalls(NumCalls) \o l.recs]
            /\ pc' = [pc EXCEPT ![p] = "loaded"]
            /\ status' = [status EXCEPT ![p] = Pending]
       ELSE /\ records' = [records EXCEPT ![p] = <<>>]
            /\ pc' = [pc EXCEPT ![p] = "done"]
            /\ status' = [status EXCEPT ![p] = HTTPException(500, l.err)]
    /\ UNCHANGED <<files, values, stat>>

Begin(p, name, r, l) ==
    /\ pc[p] = "idle"
    /\ app' = [app EXCEPT ![p] = name]
    /\ req' = [req EXCEPT ![p] = r]
    /\ path' = [path EXCEPT ![p] = l.path]
    /\ out' = [out EXCEPT ![p] = NoOut]
    /\ IF l.err = "none"
       THEN /\ records' = [records EXCEPT ![p] = l.recs]
            /\ pc' = [pc EXCEPT ![p] = "loaded"]
            /\ status' = [status EXCEPT ![p] = Pending]
       ELSE /\ records' = [records EXCEPT ![p] = <<>>]
            /\ pc' = [pc EXCEPT ![p] = "done"]
            /\ status' = [status EXCEPT ![p] = HTTPException(500, l.err)]
    /\ UNCHANGED <<files, values, stat>>

FinishWithoutValidation(p, name, requested_list, result) ==
    /\ pc[p] = "loaded"
    /\ app[p] = name
    /\ status' = [status EXCEPT ![p] = Ok]
    /\ out' = [out EXCEPT ![p] = result]
    /\ pc' = [pc EXCEPT ![p] = "done"]
    /\ UNCHANGED <<files, app, req, path, records, values, stat>>

\* The rest of a handler: the region list is validated, then summarized.
Finish(p, name, requested_list, result) ==
    /\ pc[p] = "loaded"
    /\ app[p] = name
    /\ IF requested_list = <<>>
       THEN /\ status' = [status EXCEPT ![p] = HTTPException(400, "EmptyRegionSet")]
            /\ out' = out
       ELSE /\ status' = [status EXCEPT ![p] = Ok]
            /\ out' = [out EXCEPT ![p] = result]
    /\ pc' = [pc EXCEPT ![p] = "done"]
    /\ UNCHANGED <<files, app, req, path, records, values, stat>>

\* index.py telemetry(req), line 196
telemetry_load(p, r) == Begin(p, "index", r, load_records(files))

\* index.py telemetry(req), lines 198-229
telemetry(p) ==
    Finish(p, "index", requested(req[p].regions),
           [region \in Range(requested(req[p].regions)) |->
               RegionSummary(records[p], region, req[p].threshold_ms)])

\* telemetry.py telemetry_metrics(req), line 133
telemetry_metrics_load(p, r) == Begin(p, "telemetry", r, _load_records(files))

\* telemetry.py telemetry_metrics(req), lines 135-170
telemetry_metrics(p) ==
    Finish(p, "telemetry", requested_regions(req[p].regions),
           response(records[p], Range(requested_regions(req[p].regions)),
                    req[p].threshold_ms))

(***************************************************************************)
(* Calls of the statistics helpers on a list of values.                    *)
(***************************************************************************)
NoStat == [fn |-> "none", result |-> <<0, 1>>]

call_p95 ==
    /\ stat.fn = "none"
    /\ stat' = [fn |-> "p95", result |-> p95(values)]
    /\ UNCHANGED <<files, pc, app, req, path, records, status, out, values>>

call_percentile_95 ==
    /\ stat.fn = "none"
    /\ stat' = [fn |-> "_percentile_95", result |-> _percentile_95(values)]
    /\ UNCHANGED <<files, pc, app, req, path, records, status, out, values>>

call_mean ==
    /\ stat.fn = "none"
    /\ stat' = [fn |-> "mean", result |-> mean(values)]
    /\ UNCHANGED <<files, pc, app, req, path, records, status, out, values>>

(***************************************************************************)
(* Inputs.                                                                 *)
(***************************************************************************)
SeqsUpTo(S, n) == UNION {[1..k -> S] : k \in 0..n}

FileSystem(primary, alt, csv) ==
    (PrimaryJson :> primary) @@ (AltJson :> alt) @@ (CsvFile :> csv)

Rec(region, latency, up) ==
    Obj([region |-> Str(region), latency_ms |-> latency, uptime |-> up])

\* Snapshot rows of the aggregation runs: two regions, latencies below, at
\* and above the thresholds, a region written with capitals and blanks, and
\* a row the loader drops.
SnapshotRows ==
    {Rec(<<"a">>, Num(1), Num(1)),
     Rec(<<" ", "A">>, Num(3), Num(2)),
     Rec(<<"b">>, Num(2), Num(1)),
     Rec(<<"a">>, Str(<<"x">>), Num(1))}

\* The snapshot is telemetry.json, the one file both applications read.
Snapshots ==
    {FileSystem(Absent, doc, Absent) :
        doc \in {Absent, JsonObject} \cup {JsonList(rows) : rows \in SeqsUpTo(SnapshotRows, MaxRows)}}

RegionInputs == {<<"A", " ">>, <<"a">>, <<"b">>, <<" ">>}

Requests ==
    [regions : SeqsUpTo(RegionInputs, MaxRegions), threshold_ms : 1..MaxLatency]

\* Requests of the concurrent calls.
FewRequests ==
    [regions : {<<<<"A", " ">>>>, <<<<"b">>, <<"a">>>>}, threshold_ms : {2}]

\* Rows of the loader runs: JSON elements.
JsonRows ==
    {Scalar,
     Rec(<<"a">>, Num(1), Num(1)),
     Obj([region |-> Str(<<" ", "A", " ">>), latency_ms |-> Num(0), latency |-> Num(3),
          uptime |-> Num(1)]),
     Rec(<<"a">>, Num(0), Num(1)),
     Rec(<<"a">>, Num(2), Num(0)),
     Obj([Region |-> Str(<<"B">>), Latency |-> Num(2), Uptime |-> Num(2)]),
     Rec(<<"a">>, Str(<<"x">>), Num(1)),
     Obj([region |-> Str(<<"a">>), uptime |-> Num(1)]),
     Rec(<<"a">>, Arr, Num(1)),
     Rec(<<"a">>, Huge, Num(1)),
     Rec(<<"b">>, Str(<<" ", "2">>), Str(<<"1">>)),
     Obj([region |-> Str(<<"a">>), latency_ms |-> None, latencyMs |-> Num(1),
          uptime_pct |-> Num(1)])}

\* Rows of the loader runs: CSV rows, every cell a string or None.
CsvRows ==
    {Rec(<<"a">>, Str(<<"1">>), Str(<<"1">>)),
     Obj([region |-> Str(<<"A", " ">>), latency_ms |-> Str(<<>>), latency |-> Str(<<"3">>),
          uptime |-> Str(<<"1">>)]),
     Rec(<<"a">>, Str(<<"x">>), Str(<<"1">>)),
     Obj([Region |-> Str(<<"b">>), Latency |-> Str(<<"2">>), Uptime |-> Str(<<"2">>)]),
     Rec(<<"a">>, Str(<<"0">>), Str(<<"1">>)),
     Rec(<<"a">>, None, None)}

JsonDocs ==
    {JsonObject} \cup {JsonList(rows) : rows \in SeqsUpTo(JsonRows, MaxLoadRows)}
        \cup {JsonRecords(rows) : rows \in SeqsUpTo(JsonRows, MaxLoadRows)}

CsvDocs == {Csv(rows) : rows \in SeqsUpTo(CsvRows, MaxLoadRows)}

\* A plain document for each candidate, told apart by its latency.
PlainPrimary == JsonList(<<Rec(<<"a">>, Num(1), Num(1))>>)
PlainAlt == JsonList(<<Rec(<<"a">>, Num(2), Num(1))>>)
PlainCsv == Csv(<<Rec(<<"a">>, Str(<<"3">>), Str(<<"1">>))>>)

\* Data directories of the loader runs: every subset of the candidates
\* exists, and one of the files is drawn from the rich documents.
DataDirs ==
    {FileSystem(a, b, c) : a \in JsonDocs \cup {Absent}, b \in {Absent, PlainAlt},
                           c \in {Absent, PlainCsv}}
    \cup {FileSystem(a, b, c) : a \in {Absent, PlainPrimary}, b \in JsonDocs \cup {Absent},
                                c \in {Absent, PlainCsv}}
    \cup {FileSystem(a, b, c) : a \in {Absent, PlainPrimary}, b \in {Absent, PlainAlt},
                                c \in CsvDocs \cup {Absent}}

LoadRequests == [regions : {<<<<"a">>, <<"b">>>>}, threshold_ms : {1}]

ValueLists == SeqsUpTo(1..MaxLatency, MaxLen)

(***************************************************************************)
(* Specifications.                                                         *)
(***************************************************************************)
InitCalls ==
    /\ pc = [p \in Calls |-> "idle"]
    /\ app = [p \in Calls |-> "none"]
    /\ req = [p \in Calls |-> NoRequest]
    /\ path = [p \in Calls |-> "none"]
    /\ records = [p \in Calls |-> <<>>]
    /\ status = [p \in Calls |-> Pending]
    /\ out = [p \in Calls |-> NoOut]

\* One call, of either application, over a snapshot.
Init ==
    /\ files \in Snapshots
    /\ InitCalls
    /\ values = <<>>
    /\ stat = NoStat

Next ==
    \/ \E r \in Requests : telemetry_load(1, r)
    \/ telemetry(1)
    \/ \E r \in Requests : telemetry_metrics_load(1, r)
    \/ telemetry_metrics(1)

Spec == Init /\ [][Next]_vars

\* Concurrent calls over a snapshot.
NextConc ==
    \/ \E p \in Calls, r \in FewRequests : telemetry_load(p, r)
    \/ \E p \in Calls : telemetry(p)
    \/ \E p \in Calls, r \in FewRequests : telemetry_metrics_load(p, r)
    \/ \E p \in Calls : telemetry_metrics(p)

SpecConc == Init /\ [][NextConc]_vars

\* The loaders over the data directories.
InitLoad ==
    /\ files \in DataDirs
    /\ InitCalls
    /\ values = <<>>
    /\ stat = NoStat

NextLoad ==
    \/ \E r \in LoadRequests : telemetry_load(1, r)
    \/ telemetry(1)
    \/ \E r \in LoadRequests : telemetry_metrics_load(1, r)
    \/ telemetry_metrics(1)

SpecLoad == InitLoad /\ [][NextLoad]_vars

\* The statistics helpers over lists of values.
InitStats ==
    /\ files = FileSystem(Absent, Absent, Absent)
    /\ InitCalls
    /\ values \in ValueLists
    /\ stat = NoStat

NextStats == call_p95 \/ call_percentile_95 \/ call_mean

SpecStats == InitStats /\ [][NextStats]_vars

(***************************************************************************)
(* Properties.                                                             *)
(***************************************************************************)
\* The trimmed, lower-cased form of each region string of the inputs.
Canonical ==
    (<<"A", " ">> :> <<"a">>) @@ (<<" ", "A">> :> <<"a">>) @@ (<<"a">> :> <<"a">>)
        @@ (<<"b">> :> <<"b">>) @@ (<<" ">> :> <<>>)

Done(p) == pc[p] = "done"
Answered(p) == pc[p] = "done" /\ status[p].code # 500
Usable(regions) == {Canonical[x] : x \in Range(regions)} \ {<<>>}
RowsOf(recs, k) == {i \in 1..Len(recs) : recs[i].region = k}

\* C1: when the loader returned records and the request names at least one
\* region that is non-empty after trimming, the keys of the answer are
\* exactly the trimmed, lower-cased, non-empty requested regions, and a key
\* without records maps to the all-zero summary.
C1_KeysAreRequestedRegions ==
    \A p \in Calls :
        (Answered(p) /\ Usable(req[p].regions) # {}) =>
            /\ status[p] = Ok
            /\ DOMAIN out[p] = Usable(req[p].regions)
            /\ \A k \in DOMAIN out[p] : RowsOf(records[p], k) = {} => out[p][k] = Zero

C1_Witness ==
    \E p \in Calls :
        /\ Done(p)
        /\ req[p].regions = <<<<"A", " ">>, <<"b">>>>
        /\ DOMAIN out[p] = {<<"a">>, <<"b">>}
        /\ out[p][<<"b">>] = Zero
        /\ out[p][<<"a">>].avg_latency > 0

\* The interpolated 95th percentile of the design: s sorted ascending,
\* pos = (n-1)*0.95, lo = floor(pos), hi = min(n-1, ceil(pos)),
\* frac = pos - lo, s[lo] + (s[hi] - s[lo]) * frac.
Interpolated(vals) ==
    LET s == sorted(vals)
        n == Len(s)
        lo == ((n - 1) * 95) \div 100
        hi == Min(n - 1, (((n - 1) * 95) + 99) \div 100)
    IN <<100 * s[lo + 1] + (s[hi + 1] - s[lo + 1]) * ((n - 1) * 95 - 100 * lo), 100>>

Precision(name) == IF name = "index" THEN 2 ELSE 3

\* C2: for every requested region with at least two records, the
\* p95_latency of the answer is the interpolated order statistic (at the
\* answer's precision), whichever application answers.
C2_P95IsInterpolated ==
    \A p \in Calls :
        (Done(p) /\ status[p] = Ok) =>
            \A k \in DOMAIN out[p] :
                LET rows == SelectSeq(records[p], LAMBDA r : r.region = k)
                IN Len(rows) >= 2 =>
                      out[p][k].p95_latency =
                          round(Interpolated(latency_ms(rows)), Precision(app[p]))

\* C3 as claimed: a request without a usable region ends in the
\* EmptyRegionSet client failure (400), whatever the state of the data
\* source.
C3_EmptyRegionSetIsClientError ==
    \A p \in Calls :
        (Done(p) /\ Usable(req[p].regions) = {}) =>
            status[p] = HTTPException(400, "EmptyRegionSet")

\* C3, amended: a request without a usable region returns no summaries; it
\* ends in the EmptyRegionSet client failure (400) when the loader returned
\* records, and in the loader's server-side failure (500) when the snapshot
\* is absent or of unsupported format, the loader running first.
C3_EmptyRegionSetAfterLoad ==
    \A p \in Calls :
        (Done(p) /\ Usable(req[p].regions) = {}) =>
            /\ out[p] = NoOut
            /\ files[AltJson].kind = "list" =>
                  status[p] = HTTPException(400, "EmptyRegionSet")
            /\ files[AltJson].kind = "absent" =>
                  status[p] = HTTPException(500, "NotFound")
            /\ files[AltJson].kind = "object" =>
                  status[p] = HTTPException(500, "Unsupported")

C3_Witness ==
    \E p \in Calls :
        /\ Done(p)
        /\ req[p].regions = <<<<" ">>, <<" ">>>>
        /\ files[AltJson].kind = "list"
        /\ files[AltJson].rows # <<>>
        /\ status[p] = HTTPException(400, "EmptyRegionSet")

(***************************************************************************)
(* The loader of the design, row by row: the first alias present in the    *)
(* row gives the field; the row is well formed when the three fields are   *)
(* present and latency and uptime convert to a number.                     *)
(***************************************************************************)
RegionKeys == <<"region", "Region">>
LatencyKeys == <<"latency_ms", "latency", "latencyMs", "Latency">>
UptimeKeys == <<"uptime", "uptime_pct", "uptimePercent", "Uptime">>

Present(r, k) == k \in DOMAIN r.f /\ r.f[k] # None

FirstPresent(r, keys) ==
    IF \A i \in 1..Len(keys) : ~Present(r, keys[i]) THEN None
    ELSE r.f[keys[CHOOSE i \in 1..Len(keys) :
                    Present(r, keys[i]) /\ \A j \in 1..(i - 1) : ~Present(r, keys[j])]]

WellFormed(r) ==
    /\ r.obj
    /\ FirstPresent(r, RegionKeys) # None
    /\ FirstPresent(r, LatencyKeys) # None
    /\ FirstPresent(r, UptimeKeys) # None
    /\ FloatOf(FirstPresent(r, LatencyKeys)).exc = "none"
    /\ FloatOf(FirstPresent(r, UptimeKeys)).exc = "none"

Normalized(r) ==
    [region |-> Lower(Strip(StrOf(FirstPresent(r, RegionKeys)))),
     latency_ms |-> FloatOf(FirstPresent(r, LatencyKeys)).val,
     uptime |-> FloatOf(FirstPresent(r, UptimeKeys)).val]

\* The handling in slot p has read a document whose rows are a list.
ReadRows(p) == pc[p] # "idle" /\ path[p] # "none" /\ files[path[p]].kind # "object"

\* C4: over a snapshot whose rows are a list, no loader fails because of an
\* element: the load ends without an exception, and every plain well-formed
\* element of the file (first aliases, non-zero numbers) is in the records
\* it returns, whatever elements stand before it.
C4_MalformedElementNeverAbortsLoad ==
    \A p \in Calls :
        ReadRows(p) =>
            /\ status[p].code # 500
            /\ \A i \in 1..Len(files[path[p]].rows) :
                  LET r == files[path[p]].rows[i]
                  IN (/\ WellFormed(r)
                      /\ DOMAIN r.f = {"region", "latency_ms", "uptime"}
                      /\ Truthy(r.f.region) /\ Truthy(r.f.latency_ms) /\ Truthy(r.f.uptime)) =>
                         Normalized(r) \in Range(records[p])

\* C5: every record a loader returns carries, for each field, the value of
\* the first alias present in its row, and a row that carries its fields
\* under any of the listed aliases is recognized by every loader path.
C5_FirstPresentAliasWins ==
    \A p \in Calls :
        (ReadRows(p) /\ status[p].code # 500) =>
            /\ \A rec \in Range(records[p]) :
                  \E i \in 1..Len(files[path[p]].rows) :
                      /\ WellFormed(files[path[p]].rows[i])
                      /\ rec = Normalized(files[path[p]].rows[i])
            /\ \A i \in 1..Len(files[path[p]].rows) :
                  LET r == files[path[p]].rows[i]
                  IN (/\ WellFormed(r)
                      /\ Truthy(FirstPresent(r, RegionKeys))
                      /\ Truthy(FirstPresent(r, LatencyKeys))
                      /\ Truthy(FirstPresent(r, UptimeKeys))) =>
                         Normalized(r) \in Range(records[p])

\* The first existing candidate in the priority order of the design.
FirstExisting ==
    IF Exists(files, PrimaryJson) THEN PrimaryJson
    ELSE IF Exists(files, AltJson) THEN AltJson
    ELSE IF Exists(files, CsvFile) THEN CsvFile
    ELSE "none"

\* C6: a loader reads the first existing file in the order primary JSON,
\* alternative JSON, CSV, and fails with DataSourceNotFound exactly when no
\* candidate exists.
C6_FirstExistingCandidateIsRead ==
    \A p \in Calls :
        pc[p] # "idle" =>
            /\ path[p] = FirstExisting
            /\ (status[p] = HTTPException(500, "NotFound")) <=> (FirstExisting = "none")

\* The rows of the snapshot that count for region k above the threshold.
BreachingRows(k, threshold_ms) ==
    {i \in 1..Len(files[AltJson].rows) :
        LET f == files[AltJson].rows[i].f
        IN /\ Canonical[f.region.s] = k
           /\ f.latency_ms.t = "num"
           /\ f.latency_ms.n > threshold_ms}

\* C7: breaches of a requested region is the number of the snapshot's rows
\* of that region whose latency is a number strictly above the threshold,
\* and lies between 0 and the number of the region's records.
C7_BreachesCountsStrictlyAbove ==
    \A p \in Calls :
        (Done(p) /\ status[p] = Ok) =>
            \A k \in DOMAIN out[p] :
                /\ out[p][k].breaches = Cardinality(BreachingRows(k, req[p].threshold_ms))
                /\ out[p][k].breaches >= 0
                /\ out[p][k].breaches <= Cardinality(RowsOf(records[p], k))

C7_Witness ==
    \E p \in Calls :
        /\ Done(p)
        /\ status[p] = Ok
        /\ \E k \in DOMAIN out[p] :
              /\ out[p][k].breaches = 1
              /\ \E i \in RowsOf(records[p], k) :
                    records[p][i].latency_ms = req[p].threshold_ms

\* C8: the value either percentile function returns for a non-empty list
\* lies between the least and the greatest value of the list, and is the
\* value itself for a list of one.
C8_PercentileWithinRange ==
    (stat.fn \in {"p95", "_percentile_95"} /\ values # <<>>) =>
        /\ \E i \in 1..Len(values) : values[i] * stat.result[2] <= stat.result[1]
        /\ \E i \in 1..Len(values) : values[i] * stat.result[2] >= stat.result[1]
        /\ Len(values) = 1 => stat.result[1] = values[1] * stat.result[2]

C8_Witness ==
    /\ stat.fn = "p95"
    /\ values = <<3, 1, 2>>
    /\ stat.result[1] * 10 = 29 * stat.result[2]

C10_EveryWellFormedRowYieldsOneRecord ==
    \A p \in Calls :
        (ReadRows(p) /\ app[p] = "index" /\ status[p].code # 500) =>
            LET w == SelectSeq(files[path[p]].rows, WellFormed)
            IN records[p] = [i \in 1..Len(w) |-> Normalized(w[i])]

====
